---- MODULE Spec2Model ----
(***************************************************************************)
(* A model of apache_logs_parser_lite: generate_json.py (the line parser,  *)
(* request decomposition, client classification, the file scan) and        *)
(* display_stats.py (get_stats, Graph.display, TopList.display).           *)
(*                                                                         *)
(* Text is modelled as TLA+ strings, read one character at a time, so the  *)
(* regular expressions of the source are matched character by character.   *)
(* A Python exception is modelled as an outcome: the name of the exception *)
(* in the variable err and the control state "raised".                     *)
(***************************************************************************)
EXTENDS Integers, Sequences, FiniteSets

\* ------------------------------------------------------------------ text

\* The character of s at position i (1-based), "" outside s.
Ch(s, i) == IF i >= 1 /\ i <= Len(s) THEN SubSeq(s, i, i) ELSE ""

\* The characters from position a to position b, "" when a > b.
Sub(s, a, b) == IF a > b THEN "" ELSE SubSeq(s, a, b)

UpperLetters == "ABCDEFGHIJKLMNOPQRSTUVWXYZ"

LowerLetters == "abcdefghijklmnopqrstuvwxyz"

DigitChars == "0123456789"

\* Printable ASCII in code-point order: from the space (32) to the underscore
\* (95), and from "a" (97) to the tilde (126). The grave accent (96) cannot be
\* written in a TLA+ string and is no character of the model.
AsciiLow == " !\"#$%&'()*+,-./0123456789:;<=>?@ABCDEFGHIJKLMNOPQRSTUVWXYZ[\\]^_"

AsciiHigh == "abcdefghijklmnopqrstuvwxyz{|}~"

CharsOf(s) == {SubSeq(s, i, i) : i \in 1..Len(s)}

IndexIn(s, c) == CHOOSE i \in 1..Len(s) : SubSeq(s, i, i) = c

Upper == CharsOf(UpperLetters)

Lower == CharsOf(LowerLetters)

Digit == CharsOf(DigitChars)

\* ord(c) of Python for the characters the model reads.
Ord == [c \in CharsOf(AsciiLow) \cup CharsOf(AsciiHigh) \cup {"\t", "\n", "\r"} |->
          CASE c = "\t" -> 9
            [] c = "\n" -> 10
            [] c = "\r" -> 13
            [] c \in CharsOf(AsciiLow) -> 31 + IndexIn(AsciiLow, c)
            [] OTHER -> 96 + IndexIn(AsciiHigh, c)]

\* str.lower() of one character: what re.IGNORECASE compares.
LowerOf == [c \in Upper |-> SubSeq(LowerLetters, IndexIn(UpperLetters, c), IndexIn(UpperLetters, c))]

ToLower(c) == IF c \in Upper THEN LowerOf[c] ELSE c

\* The value of a digit character.
DigitVal == [c \in Digit |-> IndexIn(DigitChars, c) - 1]

\* str.strip(): whitespace removed at both ends.
Whitespace == {" ", "\t", "\n", "\r"}

RECURSIVE LStrip(_)
LStrip(s) == IF Len(s) > 0 /\ Ch(s, 1) \in Whitespace THEN LStrip(Sub(s, 2, Len(s))) ELSE s

RECURSIVE RStrip(_)
RStrip(s) == IF Len(s) > 0 /\ Ch(s, Len(s)) \in Whitespace THEN RStrip(Sub(s, 1, Len(s) - 1)) ELSE s

Strip(s) == RStrip(LStrip(s))

\* The end of the longest run of characters of class cls starting at p
\* (p - 1 when the character at p is not in the class, or p is past the end).
RunEnd(s, p, cls) ==
    IF p > Len(s) THEN p - 1 ELSE
    CHOOSE q \in (p - 1)..Len(s) :
        /\ q = Len(s) \/ Ch(s, q + 1) \notin cls
        /\ \A r \in p..q : Ch(s, r) \in cls

\* The same for a class given by the characters it excludes.
RunEndNot(s, p, excl) ==
    IF p > Len(s) THEN p - 1 ELSE
    CHOOSE q \in (p - 1)..Len(s) :
        /\ q = Len(s) \/ Ch(s, q + 1) \in excl
        /\ \A r \in p..q : Ch(s, r) \notin excl

\* ------------------------------------------------------------------ int()

\* int(value) of a string of decimal digits.
RECURSIVE DecimalValue(_)
DecimalValue(s) == IF Len(s) = 0 THEN 0
                   ELSE 10 * DecimalValue(Sub(s, 1, Len(s) - 1)) + DigitVal[Ch(s, Len(s))]

AllDigits(s) == Len(s) > 0 /\ \A i \in 1..Len(s) : Ch(s, i) \in Digit

\* ------------------------------------------------------- regular expressions

\* One item of a pattern that is a concatenation: k is "in" (characters of the
\* set cs), "notin" (characters outside cs) or "alt" (the alternation \d+|\-);
\* min..max bounds the repetition (max = 0: unbounded); g is the capture group
\* the item lies in (0: none).
Lit(c, g) == [k |-> "in", cs |-> {c}, min |-> 1, max |-> 1, g |-> g]

Plus(cs, g) == [k |-> "in", cs |-> cs, min |-> 1, max |-> 0, g |-> g]

NotPlus(cs, g) == [k |-> "notin", cs |-> cs, min |-> 1, max |-> 0, g |-> g]

NotStar(cs, g) == [k |-> "notin", cs |-> cs, min |-> 0, max |-> 0, g |-> g]

Alt(g) == [k |-> "alt", cs |-> {}, min |-> 1, max |-> 0, g |-> g]

NoMatch == [ok |-> FALSE, ends |-> <<>>]

Cons(e, r) == IF r.ok THEN [ok |-> TRUE, ends |-> <<e>> \o r.ends] ELSE NoMatch

\* "$" without re.MULTILINE: the end of the string, or just before a final newline.
AtEnd(s, p) == p = Len(s) + 1 \/ (p = Len(s) /\ Ch(s, p) = "\n")

\* The backtracking match of items k.. of pat against s from position p, anchored
\* at the end with "$": the end position of every item in the first match the
\* engine finds (a repetition tries its longest run first, then gives back one
\* character at a time; an alternation tries its branches left to right).
RECURSIVE MatchFrom(_, _, _, _), TryLen(_, _, _, _, _)
MatchFrom(pat, k, s, p) ==
    IF k > Len(pat) THEN [ok |-> AtEnd(s, p), ends |-> <<>>]
    ELSE LET it == pat[k]
         IN  CASE it.k = "in" /\ it.max = 1 ->
                    IF Ch(s, p) \in it.cs THEN Cons(p, MatchFrom(pat, k + 1, s, p + 1)) ELSE NoMatch
               [] it.k = "in" /\ it.max = 0 -> TryLen(pat, k, s, p, RunEnd(s, p, it.cs))
               [] it.k = "notin" -> TryLen(pat, k, s, p, RunEndNot(s, p, it.cs))
               [] it.k = "alt" ->
                    LET r == TryLen(pat, k, s, p, RunEnd(s, p, Digit))
                    IN  IF r.ok THEN r
                        ELSE IF Ch(s, p) = "-" THEN Cons(p, MatchFrom(pat, k + 1, s, p + 1))
                        ELSE NoMatch
TryLen(pat, k, s, p, e) ==
    LET tries == {[e |-> x, r |-> MatchFrom(pat, k + 1, s, x + 1)] : x \in (p - 1 + pat[k].min)..e}
        good  == {t \in tries : t.r.ok}
        first == CHOOSE t \in good : \A u \in good : u.e <= t.e
    IN  IF good = {} THEN NoMatch ELSE Cons(first.e, first.r)

\* match.group(g): the text from the first to the last item of group g.
GroupText(pat, ends, s, g) ==
    LET ks    == {k \in 1..Len(pat) : pat[k].g = g}
        first == CHOOSE k \in ks : \A j \in ks : k <= j
        last  == CHOOSE k \in ks : \A j \in ks : k >= j
        from  == IF first = 1 THEN 1 ELSE ends[first - 1] + 1
    IN  Sub(s, from, ends[last])

\* Whether the literal word w occurs in s at position p, letters compared
\* without case (re.IGNORECASE).
LitCI(s, p, w) ==
    /\ p + Len(w) - 1 <= Len(s)
    /\ \A i \in 1..Len(w) : ToLower(Ch(s, p + i - 1)) = ToLower(Ch(w, i))

\* (sep \d+)* read greedily from just after position q: the end of the last
\* complete repetition.
RECURSIVE Segments(_, _, _)
Segments(s, q, sep) ==
    IF Ch(s, q + 1) = sep /\ Ch(s, q + 2) \in Digit
    THEN Segments(s, RunEnd(s, q + 2, Digit), sep)
    ELSE q

\* <word>\d+(sep\d+)* at position p: the end of the match, 0 when there is none.
VersionedEnd(s, p, w, sep) ==
    IF LitCI(s, p, w) /\ Ch(s, p + Len(w)) \in Digit
    THEN Segments(s, RunEnd(s, p + Len(w), Digit), sep)
    ELSE 0

\* ------------------------------------------------------ generate_json.py

REMOTE_HOSTNAME_RE ==
    <<Plus(Digit, 1), Lit(".", 1), Plus(Digit, 1), Lit(".", 1),
      Plus(Digit, 1), Lit(".", 1), Plus(Digit, 1)>>

REMOTE_LOGNAME_RE == <<Lit("-", 2)>>

REMOTE_USER_RE == <<Lit("-", 3)>>

TIME_RE == <<Lit("[", 0), NotPlus({"]"}, 4), Lit("]", 0)>>

REQUEST_RE == <<Lit("\"", 0), NotPlus({"\""}, 5), Lit("\"", 0)>>

\* STATUS_RE written like BYTES_SIZE_RE: (\d+|\-).
STATUS_RE_OrDash == <<Alt(6)>>

STATUS_RE == <<Plus(Digit, 6)>>

BYTES_SIZE_RE == <<Alt(7)>>

REFERER_RE == <<Lit("\"", 0), NotPlus({"\""}, 8), Lit("\"", 0)>>

USER_AGENT_RE == <<Lit("\"", 0), NotPlus({"\""}, 9), Lit("\"", 0)>>

Space == <<Lit(" ", 0)>>

\* " ".join([...]): the nine pieces in the order of the Apache configuration.
LOG_LINE_PATTERN ==
    REMOTE_HOSTNAME_RE \o Space \o REMOTE_LOGNAME_RE \o Space \o REMOTE_USER_RE \o Space
    \o TIME_RE \o Space \o REQUEST_RE \o Space \o STATUS_RE \o Space \o BYTES_SIZE_RE
    \o Space \o REFERER_RE \o Space \o USER_AGENT_RE

\* REGEX.search(line): "^" anchors the search at the start of the line.
REGEX(line) == MatchFrom(LOG_LINE_PATTERN, 1, line, 1)

\* None, and a present value, of an optional field.
None == <<>>

Some(x) == <<x>>

\* What int() raises on, as a value no decoded integer has.
ValueError == -1

\* parse_int without the test for "-".
parse_int_NoDash(value) == IF AllDigits(value) THEN DecimalValue(value) ELSE ValueError

\* parse_int: "-" is 0, a string of digits is its value, anything else makes
\* int() raise ValueError.
parse_int(value) ==
    IF value = "-" THEN 0
    ELSE IF AllDigits(value) THEN DecimalValue(value)
    ELSE ValueError

\* METHOD_REGEX with a method of letters of either case: [A-Za-z]+.
METHOD_REGEX_AnyCase ==
    <<Plus(Upper \cup Lower, 1), Lit(" ", 0), NotPlus({" "}, 2), Lit(" ", 0), NotStar({"\n"}, 3)>>

METHOD_REGEX == <<Plus(Upper, 1), Lit(" ", 0), NotPlus({" "}, 2), Lit(" ", 0), NotStar({"\n"}, 3)>>

\* extract_method_and_url: the three groups, or None three times.
extract_method_and_url(request) ==
    LET m == MatchFrom(METHOD_REGEX, 1, request, 1)
    IN  IF m.ok
        THEN [method   |-> Some(GroupText(METHOD_REGEX, m.ends, request, 1)),
              url      |-> Some(GroupText(METHOD_REGEX, m.ends, request, 2)),
              protocol |-> Some(GroupText(METHOD_REGEX, m.ends, request, 3))]
        ELSE [method |-> None, url |-> None, protocol |-> None]

\* [A-z0-9._ ]: the range A-z holds both cases of every letter and the five
\* characters between "Z" and "a" the model can write.
MacClass == Upper \cup Lower \cup {"[", "\\", "]", "^", "_"} \cup Digit \cup {".", " "}

\* The end of the desktop alternation at position p, 0 when no branch matches:
\* Windows NT \d+\.?\d* | Mac OS [A-z0-9._ ]+ | Linux \d+(\.\d+)*
DesktopEnd(s, p) ==
    IF LitCI(s, p, "Windows NT ") /\ Ch(s, p + 11) \in Digit
    THEN LET q == RunEnd(s, p + 11, Digit)
             d == IF Ch(s, q + 1) = "." THEN q + 1 ELSE q
         IN  RunEnd(s, d + 1, Digit)
    ELSE IF LitCI(s, p, "Mac OS ") /\ Ch(s, p + 7) \in MacClass
    THEN RunEnd(s, p + 7, MacClass)
    ELSE VersionedEnd(s, p, "Linux ", ".")

\* The end of the mobile alternation at position p, 0 when no branch matches:
\* iPhone OS \d+(_\d+)* | Android \d+(\.\d+)* | iPad
MobileEnd(s, p) ==
    IF VersionedEnd(s, p, "iPhone OS ", "_") > 0 THEN VersionedEnd(s, p, "iPhone OS ", "_")
    ELSE IF VersionedEnd(s, p, "Android ", ".") > 0 THEN VersionedEnd(s, p, "Android ", ".")
    ELSE IF LitCI(s, p, "iPad") THEN p + 3
    ELSE 0

\* The start of group 1 in the match of ".*(...)" from the start of s: ".*" is
\* greedy, so it is the last position, within the first line of s, where the
\* alternation matches; 0 when there is none.
LastStart(s, p, mobile) ==
    LET starts == {q \in 1..p : (IF mobile THEN MobileEnd(s, q) ELSE DesktopEnd(s, q)) > 0}
    IN  IF starts = {} THEN 0 ELSE CHOOSE q \in starts : \A r \in starts : r <= q

\* MOBILE_UA_RE.match(user_agent): group 1, or None.
MOBILE_UA_RE(user_agent) ==
    LET p == LastStart(user_agent, RunEndNot(user_agent, 1, {"\n"}) + 1, TRUE)
    IN  IF p = 0 THEN None ELSE Some(Sub(user_agent, p, MobileEnd(user_agent, p)))

\* DESKTOP_UA_RE.match(user_agent): group 1, or None.
DESKTOP_UA_RE(user_agent) ==
    LET p == LastStart(user_agent, RunEndNot(user_agent, 1, {"\n"}) + 1, FALSE)
    IN  IF p = 0 THEN None ELSE Some(Sub(user_agent, p, DesktopEnd(user_agent, p)))

\* extract_client_information with the desktop pattern tried first.
extract_client_information_DesktopFirst(user_agent) ==
    LET mobile_os_match  == MOBILE_UA_RE(user_agent)
        desktop_os_match == DESKTOP_UA_RE(user_agent)
    IN  [system_agent |-> IF desktop_os_match # None THEN desktop_os_match[1]
                          ELSE IF mobile_os_match # None THEN mobile_os_match[1]
                          ELSE "Unknown"]

\* extract_client_information: the mobile capture, else the desktop capture,
\* else "Unknown".
extract_client_information(user_agent) ==
    LET mobile_os_match  == MOBILE_UA_RE(user_agent)
        desktop_os_match == DESKTOP_UA_RE(user_agent)
    IN  [system_agent |-> IF mobile_os_match # None THEN mobile_os_match[1]
                          ELSE IF desktop_os_match # None THEN desktop_os_match[1]
                          ELSE "Unknown"]

\* parse_line returns False for a line the pattern does not match.
False == <<>>

\* parse_line: the entry of a line that matches REGEX, as a one-element
\* sequence, or False.
parse_line(line) ==
    LET match == REGEX(line)
        grp(g) == GroupText(LOG_LINE_PATTERN, match.ends, line, g)
        req   == extract_method_and_url(grp(5))
    IN  IF match.ok
        THEN <<[remote_ip    |-> grp(1),
                log_name     |-> grp(2),
                user         |-> grp(3),
                time         |-> grp(4),
                request      |-> grp(5),
                response     |-> parse_int(grp(6)),
                bytes        |-> parse_int(grp(7)),
                referrer     |-> grp(8),
                user_agent   |-> grp(9),
                method       |-> req.method,
                url          |-> req.url,
                protocol     |-> req.protocol,
                system_agent |-> extract_client_information(grp(9)).system_agent]>>
        ELSE False

\* ------------------------------------------------------- display_stats.py

MonthNames == <<"jan", "feb", "mar", "apr", "may", "jun", "jul", "aug", "sep", "oct", "nov", "dec">>

\* The lower-case text of s.
LowerText(s) == [i \in 1..Len(s) |-> ToLower(Ch(s, i))]

\* The month number of a three-letter abbreviation read without case, 0 if none.
MonthOf(w) ==
    IF \E m \in 1..12 : LowerText(w) = LowerText(MonthNames[m])
    THEN CHOOSE m \in 1..12 : LowerText(w) = LowerText(MonthNames[m])
    ELSE 0

IsLeap(y) == (y % 4 = 0 /\ y % 100 # 0) \/ y % 400 = 0

DaysIn(m, y) == IF m = 2 THEN (IF IsLeap(y) THEN 29 ELSE 28)
                ELSE IF m \in {4, 6, 9, 11} THEN 30 ELSE 31

\* A run of one or two digits from a to b whose value is at most hi.
SmallNumber(s, a, b, hi) == b - a + 1 \in {1, 2} /\ DecimalValue(Sub(s, a, b)) <= hi

TwoDigits(s, a) == Ch(s, a) \in Digit /\ Ch(s, a + 1) \in Digit

\* %z from position z to the end of s: "Z", or a sign, two digits of hours, an
\* optional colon, minutes below 60, and optionally seconds below 60 written
\* with the same use of the colon; the offset has to be less than a day. (A
\* fraction of a second after the seconds is not modelled.)
OffsetOk(s, z) ==
    \/ Sub(s, z, Len(s)) = "Z"
    \/ /\ Ch(s, z) \in {"+", "-"}
       /\ TwoDigits(s, z + 1)
       /\ LET colon == Ch(s, z + 3) = ":"
              m     == IF colon THEN z + 4 ELSE z + 3
          IN  /\ TwoDigits(s, m) /\ DecimalValue(Sub(s, m, m + 1)) <= 59
              /\ DecimalValue(Sub(s, z + 1, z + 2)) <= 23
              /\ \/ Len(s) = m + 1
                 \/ LET sec == IF colon THEN m + 3 ELSE m + 2
                    IN  /\ colon => Ch(s, m + 2) = ":"
                        /\ TwoDigits(s, sec) /\ DecimalValue(Sub(s, sec, sec + 1)) <= 59
                        /\ Len(s) = sec + 1

\* datetime.strptime(time, "%d/%b/%Y:%H:%M:%S %z").hour, or ValueError when
\* strptime raises: the text does not have the format, or names no real date.
strptime_hour(time) ==
    LET d0 == IF Ch(time, 1) = " " THEN 2 ELSE 1
        d1 == RunEnd(time, d0, Digit)
        y0 == d1 + 6
        h0 == y0 + 5
        h1 == RunEnd(time, h0, Digit)
        m0 == h1 + 2
        m1 == RunEnd(time, m0, Digit)
        s0 == m1 + 2
        s1 == RunEnd(time, s0, Digit)
        z0 == RunEnd(time, s1 + 1, Whitespace) + 1
        month == MonthOf(Sub(time, d1 + 2, d1 + 4))
        year  == DecimalValue(Sub(time, y0, y0 + 3))
        ok == /\ SmallNumber(time, d0, d1, 31)
              /\ DecimalValue(Sub(time, d0, d1)) >= 1
              /\ d0 = 2 => d1 = d0
              /\ Ch(time, d1 + 1) = "/"
              /\ Len(time) >= d1 + 4 /\ month > 0
              /\ Ch(time, d1 + 5) = "/"
              /\ TwoDigits(time, y0) /\ TwoDigits(time, y0 + 2)
              /\ Ch(time, y0 + 4) = ":"
              /\ SmallNumber(time, h0, h1, 23)
              /\ Ch(time, h1 + 1) = ":"
              /\ SmallNumber(time, m0, m1, 59)
              /\ Ch(time, m1 + 1) = ":"
              /\ SmallNumber(time, s0, s1, 59)
              /\ z0 > s1 + 1
              /\ OffsetOk(time, z0)
              /\ year >= 1
              /\ DecimalValue(Sub(time, d0, d1)) <= DaysIn(month, year)
    IN  IF ok THEN DecimalValue(Sub(time, h0, h1)) ELSE ValueError

\* str(n) of a natural number.
RECURSIVE IntToStr(_)
IntToStr(n) == IF n < 10 THEN Ch(DigitChars, n + 1)
               ELSE IntToStr(n \div 10) \o Ch(DigitChars, (n % 10) + 1)

\* f"{n:02d}": at least two digits, padded with a zero on the left.
Format02d(n) == IF n < 10 THEN "0" \o IntToStr(n) ELSE IntToStr(n)

\* HourKey with the end of the hour wrapped at midnight.
HourKey_Wrapped(hour) == Format02d(hour) \o ":00-" \o Format02d((hour + 1) % 24) \o ":00"

\* The key of an hour in hits_per_time: f"{hour:02d}:00-{hour + 1:02d}:00".
HourKey(hour) == Format02d(hour) \o ":00-" \o Format02d(hour + 1) \o ":00"

\* A dict is the sequence of its items [k, v] in insertion order.
HasKey(d, key) == \E j \in 1..Len(d) : d[j].k = key

\* d[key], for a key of d.
Get(d, key) == d[CHOOSE j \in 1..Len(d) : d[j].k = key].v

\* sum(d.values())
RECURSIVE SumValues(_)
SumValues(d) == IF d = <<>> THEN 0 ELSE d[1].v + SumValues(Tail(d))

\* max(d.values()), for a dict that is not empty.
MaxValue(d) == CHOOSE v \in {d[j].v : j \in 1..Len(d)} : \A j \in 1..Len(d) : d[j].v <= v

\* d[key] += amount on a defaultdict: a new key is added at the end, starting
\* from zero.
Increment(d, key, amount) ==
    IF HasKey(d, key)
    THEN [j \in 1..Len(d) |-> IF d[j].k = key THEN [k |-> key, v |-> d[j].v + amount] ELSE d[j]]
    ELSE Append(d, [k |-> key, v |-> amount])

\* a < b for two strings, as Python compares them: by code point, a proper
\* prefix first.
RECURSIVE StrLess(_, _)
StrLess(a, b) ==
    IF Len(b) = 0 THEN FALSE
    ELSE IF Len(a) = 0 THEN TRUE
    ELSE IF Ch(a, 1) = Ch(b, 1) THEN StrLess(Sub(a, 2, Len(a)), Sub(b, 2, Len(b)))
    ELSE Ord[Ch(a, 1)] < Ord[Ch(b, 1)]

\* The order of a sort: by key ascending (key=lambda x: x[0]), or by value
\* descending (key=lambda x: x[1], reverse=True).
Before(x, y, by_key) == IF by_key THEN StrLess(x.k, y.k) ELSE x.v > y.v

\* The item x put into the sorted sequence d, after the items it does not
\* precede: one step of a stable sort.
RECURSIVE Insert(_, _, _)
Insert(d, x, by_key) ==
    IF d = <<>> THEN <<x>>
    ELSE IF Before(x, d[1], by_key) THEN <<x>> \o d
    ELSE <<d[1]>> \o Insert(Tail(d), x, by_key)

\* sorted(d.items(), key=...): a stable sort, the order of equal items kept.
RECURSIVE Sorted(_, _)
Sorted(d, by_key) ==
    IF d = <<>> THEN <<>>
    ELSE Insert(Sorted(SubSeq(d, 1, Len(d) - 1), by_key), d[Len(d)], by_key)

\* SortByKey with the sort left out.
SortByKey_Unsorted(d) == d

\* dict(sorted(hits_per_time.items(), key=lambda x: x[0]))
SortByKey(d) == Sorted(d, TRUE)

\* The first n items of a sequence: seq[0:n].
Take(seq, n) == SubSeq(seq, 1, IF n < Len(seq) THEN n ELSE Len(seq))

\* The default of the parameter top of TopList.display.
TopDefault == 10

\* TopList.display: the items in descending order of value (reverse=True keeps
\* the order of equal items), the first top of them, printed in that order.
TopList(d, title, top) == [title |-> title, err |-> "none", rows |-> Take(Sorted(d, FALSE), top)]

\* No top was given to Graph.display: top=None.
NoTop == -1

\* The exceptions data[0:top] raises on a dict: TypeError (a slice is not
\* hashable) up to Python 3.11, KeyError (hashable, and no key) from 3.12.
SliceErrors == {"TypeError", "KeyError"}

\* One printed bar of Graph.display: int(value * 100 / max_value) blocks, and
\* the percentage value * 100 / sum_values, kept as the fraction pnum / pden.
Bar(item, max_value, sum_values) ==
    [k |-> item.k, v |-> item.v, bar |-> (item.v * 100) \div max_value,
     pnum |-> item.v * 100, pden |-> sum_values]

\* Graph.display(data, title, top=top), show_percents left True: the outcomes
\* it can have. sum_values is taken over the whole dict, before the truncation;
\* data[0:top] raises on a dict; max() raises ValueError on an empty dict; the
\* divisions raise ZeroDivisionError when every value is 0.
Graph(d, title, top) ==
    IF top # NoTop
    THEN {[title |-> title, err |-> e, rows |-> <<>>] : e \in SliceErrors}
    ELSE IF d = <<>>
    THEN {[title |-> title, err |-> "ValueError", rows |-> <<>>]}
    ELSE IF MaxValue(d) = 0
    THEN {[title |-> title, err |-> "ZeroDivisionError", rows |-> <<>>]}
    ELSE {[title |-> title, err |-> "none",
           rows |-> [j \in 1..Len(d) |-> Bar(d[j], MaxValue(d), SumValues(d))]]}

\* ---------------------------------------------------------------- inputs

\* The most lines a file of several lines has, the most user-agent pieces put
\* together, the most entries get_stats is given, the largest value of a
\* mapping given to Graph.display on its own.
MaxLines == 3

MaxPieces == 3

MaxEntries == 3

MaxCount == 2

\* All sequences of at most n elements of S.
SeqUpTo(S, n) == UNION {[1..k -> S] : k \in 0..n}

\* The line Apache writes for the fields f under
\* LogFormat "%h %l %u %t \"%r\" %>s %b \"%{Referer}i\" \"%{User-agent}i\"".
LineOf(f) ==
    f.ip \o " - - [" \o f.time \o "] \"" \o f.request \o "\" " \o f.status \o " " \o f.bytes
    \o " \"" \o f.referrer \o "\" \"" \o f.ua \o "\""

BaseFields ==
    [ip |-> "10.0.0.1", time |-> "18/Sep/2011:19:18:28 -0400", request |-> "GET /a HTTP/1.1",
     status |-> "200", bytes |-> "512", referrer |-> "-", ua |-> "curl/7.64.1"]

StatusTokens == {"200", "404", "007", "-", "2x", ""}

BytesTokens == {"0", "512", "1048576", "-", "1-", ""}

Requests ==
    {"GET /a HTTP/1.1", "POST /b?x=1 HTTP/1.0", "GET /a ", "GET /a", "get /a HTTP/1.1", "-",
     "GET  /a HTTP/1.1", "OPTIONS * HTTP/1.1 and more", " GET /a HTTP/1.1", "G3T /a HTTP/1.1", ""}

Ips == {"10.0.0.1", "192.168.1.20", "1.2.3", "a.b.c.d", "1.2.3.4.5"}

Times == {"18/Sep/2011:19:18:28 -0400", "18/Sep/2011:23:59:59 +0000", "yesterday", "a] b", ""}

Referrers == {"-", "http://example.org/x y", ""}

UaPieces ==
    {"iPhone OS 15", "ANDROID 10", "iPad", "Mac OS X", "Linux 5", "Windows NT 10",
     ".", "_0", "4"}

RECURSIVE Concat(_)
Concat(ws) == IF ws = <<>> THEN "" ELSE ws[1] \o Concat(Tail(ws))

\* The user agents of the model: at most MaxPieces pieces put together.
UserAgents == {Concat(ws) : ws \in SeqUpTo(UaPieces, MaxPieces)}

\* The fields the one-line files are written from: the base line with its
\* status and bytes, its request (under a numeric and a "-" status), its user
\* agent, or its address, time and referrer replaced.
FieldSpace ==
    {[BaseFields EXCEPT !.status = st, !.bytes = by] : st \in StatusTokens, by \in BytesTokens}
    \cup {[BaseFields EXCEPT !.request = r, !.bytes = by] : r \in Requests, by \in {"512", "-"}}
    \cup {[BaseFields EXCEPT !.ua = u] : u \in UserAgents}
    \cup {[BaseFields EXCEPT !.ip = a, !.time = t, !.referrer = r] :
            a \in Ips, t \in Times, r \in Referrers}

\* The lines of the files of several lines: four that parse (the last with
\* white space around it), and four that do not.
LinePool ==
    {LineOf(BaseFields) \o "\n",
     LineOf([BaseFields EXCEPT !.ip = "192.168.1.20", !.time = "18/Sep/2011:23:59:59 +0000",
             !.request = "GET /b HTTP/1.1", !.status = "404", !.bytes = "-",
             !.ua = "Mozilla/5.0 (iPhone; CPU iPhone OS 15_0 like Mac OS X)"]) \o "\n",
     LineOf([BaseFields EXCEPT !.request = "-", !.status = "408", !.time = "yesterday"]) \o "\n",
     "  " \o LineOf([BaseFields EXCEPT !.ua = "Mozilla/5.0 (X11; Linux 5.4)"]) \o " \r\n",
     LineOf([BaseFields EXCEPT !.status = "-"]) \o "\n",
     LineOf(BaseFields) \o " trailing\n",
     "garbage\n",
     "\n"}

\* The files generate_json is run on.
Files == {<<LineOf(f) \o "\n">> : f \in FieldSpace} \cup SeqUpTo(LinePool, MaxLines)

\* The lines whose entries make the JSON files display_stats is run on.
StatsLines ==
    {LineOf(BaseFields),
     LineOf([BaseFields EXCEPT !.ip = "192.168.1.20", !.time = "18/Sep/2011:23:59:59 +0000",
             !.request = "GET /b HTTP/1.1", !.status = "404", !.bytes = "-",
             !.ua = "Mozilla/5.0 (iPhone; CPU iPhone OS 15_0 like Mac OS X)"]),
     LineOf([BaseFields EXCEPT !.time = "01/Jan/2012:09:00:00 +0100", !.bytes = "1048576",
             !.ua = "Mozilla/5.0 (X11; Linux 5.4)"]),
     LineOf([BaseFields EXCEPT !.time = "yesterday", !.request = "GET /c HTTP/1.1",
             !.status = "500"]),
     LineOf([BaseFields EXCEPT !.ip = "192.168.1.20", !.time = "31/Dec/2011:00:00:01 -0400",
             !.request = "-", !.status = "408", !.bytes = "0"]),
     LineOf([BaseFields EXCEPT !.time = "18/Sep/2011:7:05:09 -0400", !.status = "404"])}

EntryPool == {parse_line(l)[1] : l \in {x \in StatsLines : parse_line(x) # False}}

\* The mappings Graph.display is given on its own: the keys in any order, no
\* key twice, every value from 1 to MaxCount.
GraphKeys == {"200", "404", "500"}

GraphData ==
    {d \in SeqUpTo([k : GraphKeys, v : 1..MaxCount], Cardinality(GraphKeys)) :
        \A a, b \in 1..Len(d) : a # b => d[a].k # d[b].k}

GraphTops == {NoTop} \cup (0..Cardinality(GraphKeys))

\* ----------------------------------------------------------------- state

VARIABLES
    pc,                 \* where the program is, "raised" after an exception
    err,                \* the exception that ended the run, "none" if none
    fh,                 \* generate_json: the lines of the input file
    pos,                \* generate_json: how many lines have been read
    data,               \* the entries: parse_log_file's list, get_stats's argument
    done,               \* get_stats: how many entries the loop has completed
    hits_per_page,      \* get_stats: url -> hits
    bytes_per_ip,       \* get_stats: remote_ip -> bytes (2^20 times the megabytes)
    hits_per_response,  \* get_stats: response -> hits
    hits_per_os,        \* get_stats: system_agent -> hits
    hits_per_time,      \* get_stats: hour key -> hits
    report,             \* what has been displayed: one record per display call
    totals,             \* get_stats: the totals printed at the end
    graph_data,         \* Graph.display on its own: its data
    graph_top           \* Graph.display on its own: its top

stats == <<done, hits_per_page, bytes_per_ip, hits_per_response, hits_per_os, hits_per_time,
           report, totals>>

vars == <<pc, err, fh, pos, data, stats, graph_data, graph_top>>

NoTotals == [hits |-> 0, bytes |-> 0, visitors |-> 0, urls |-> 0]

\* The variables of a program that is not the one running.
NoFile == fh = <<>> /\ pos = 0

NoStats ==
    /\ done = 0
    /\ hits_per_page = <<>> /\ bytes_per_ip = <<>> /\ hits_per_response = <<>>
    /\ hits_per_os = <<>> /\ hits_per_time = <<>>
    /\ report = <<>> /\ totals = NoTotals

NoGraph == graph_data = <<>> /\ graph_top = NoTop

\* ------------------------------------------- generate_json: parse_log_file

\* Collect with the entry put at the front of the list instead of the end.
Collect_Prepend(d, line_data) == IF line_data # False THEN <<line_data[1]>> \o d ELSE d

\* The end of the body of the loop of parse_log_file: the entry is appended
\* when parse_line returned one.
Collect(d, line_data) == IF line_data # False THEN Append(d, line_data[1]) ELSE d

\* Whether int() raised inside parse_line.
IntRaised(line_data) ==
    line_data # False /\ ValueError \in {line_data[1].response, line_data[1].bytes}

InitParse ==
    /\ pc = "scan" /\ err = "none"
    /\ fh \in Files /\ pos = 0 /\ data = <<>>
    /\ NoStats /\ NoGraph

\* for line in fh: one more line is read and parsed.
ReadLine ==
    /\ pc = "scan" /\ pos < Len(fh)
    /\ pos' = pos + 1
    /\ LET line_data == parse_line(Strip(fh[pos + 1]))
       IN  IF IntRaised(line_data)
           THEN pc' = "raised" /\ err' = "ValueError" /\ data' = data
           ELSE pc' = pc /\ err' = err /\ data' = Collect(data, line_data)
    /\ UNCHANGED <<fh, stats, graph_data, graph_top>>

\* The file is exhausted: parse_log_file returns data and generate_json dumps it.
EndOfFile ==
    /\ pc = "scan" /\ pos = Len(fh)
    /\ pc' = "written"
    /\ UNCHANGED <<err, fh, pos, data, stats, graph_data, graph_top>>

NextParse == ReadLine \/ EndOfFile

SpecParse == InitParse /\ [][NextParse]_vars

\* ------------------------------------------------ display_stats: get_stats

\* get_stats(data) on the entries of a JSON file generate_json wrote.
Init ==
    /\ pc = "loop" /\ err = "none"
    /\ NoFile
    /\ data \in SeqUpTo(EntryPool, MaxEntries)
    /\ NoStats /\ NoGraph

\* One turn of the loop over data: the four counts that do not need the time,
\* then strptime, which ends the run when it raises, then the count of the hour.
Aggregate ==
    /\ pc = "loop" /\ done < Len(data)
    /\ LET entry == data[done + 1]
           hour  == strptime_hour(entry.time)
       IN  /\ hits_per_page' = Increment(hits_per_page, entry.url, 1)
           /\ bytes_per_ip' = Increment(bytes_per_ip, entry.remote_ip, entry.bytes)
           /\ hits_per_response' = Increment(hits_per_response, entry.response, 1)
           /\ hits_per_os' = Increment(hits_per_os, entry.system_agent, 1)
           /\ IF hour = ValueError
              THEN /\ pc' = "raised" /\ err' = "ValueError"
                   /\ UNCHANGED <<hits_per_time, done>>
              ELSE /\ hits_per_time' = Increment(hits_per_time, HourKey(hour), 1)
                   /\ done' = done + 1
                   /\ UNCHANGED <<pc, err>>
    /\ UNCHANGED <<fh, pos, data, report, totals, graph_data, graph_top>>

\* A display call that cannot raise: its output is added to the report.
Show(at, section, then) ==
    /\ pc = at
    /\ report' = Append(report, section)
    /\ pc' = then
    /\ UNCHANGED <<err, fh, pos, data, done, hits_per_page, bytes_per_ip, hits_per_response,
                   hits_per_os, hits_per_time, totals, graph_data, graph_top>>

\* A call of Graph.display: its output is added to the report, or it raises.
ShowGraph(at, d, title, then) ==
    /\ pc = at
    /\ \E g \in Graph(d, title, NoTop) :
          IF g.err = "none"
          THEN report' = Append(report, g) /\ pc' = then /\ err' = err
          ELSE report' = report /\ pc' = "raised" /\ err' = g.err
    /\ UNCHANGED <<fh, pos, data, done, hits_per_page, bytes_per_ip, hits_per_response,
                   hits_per_os, hits_per_time, totals, graph_data, graph_top>>

\* The loop is over: TopList.display(hits_per_page, 'Hits per page').
ShowPages ==
    /\ done = Len(data)
    /\ Show("loop", TopList(hits_per_page, "Hits per page", TopDefault), "ips")

\* TopList.display(bytes_per_ip, 'Megabytes per IP', unit="MB")
ShowIps == Show("ips", TopList(bytes_per_ip, "Megabytes per IP", TopDefault), "responses")

\* Graph.display(hits_per_response, 'Response codes')
ShowResponses == ShowGraph("responses", hits_per_response, "Response codes", "os")

\* TopList.display(hits_per_os, 'Hits per OS')
ShowOs == Show("os", TopList(hits_per_os, "Hits per OS", TopDefault), "sort")

\* hits_per_time = dict(sorted(hits_per_time.items(), key=lambda x: x[0]))
SortTime ==
    /\ pc = "sort"
    /\ hits_per_time' = SortByKey(hits_per_time)
    /\ pc' = "time"
    /\ UNCHANGED <<err, fh, pos, data, done, hits_per_page, bytes_per_ip, hits_per_response,
                   hits_per_os, report, totals, graph_data, graph_top>>

\* Graph.display(hits_per_time, 'Hits per time range')
ShowTime == ShowGraph("time", hits_per_time, "Hits per time range", "totals")

\* The totals: len(data), the traffic, the visitors, the URLs.
Totals ==
    /\ pc = "totals"
    /\ totals' = [hits |-> Len(data), bytes |-> SumValues(bytes_per_ip),
                  visitors |-> Len(bytes_per_ip), urls |-> Len(hits_per_page)]
    /\ pc' = "done"
    /\ UNCHANGED <<err, fh, pos, data, done, hits_per_page, bytes_per_ip, hits_per_response,
                   hits_per_os, hits_per_time, report, graph_data, graph_top>>

Next ==
    \/ Aggregate
    \/ ShowPages
    \/ ShowIps
    \/ ShowResponses
    \/ ShowOs
    \/ SortTime
    \/ ShowTime
    \/ Totals

Spec == Init /\ [][Next]_vars

\* ------------------------------------------- display_stats: Graph.display

\* Graph.display(graph_data, title, top=graph_top) called on its own.
InitGraph ==
    /\ pc = "call" /\ err = "none"
    /\ NoFile /\ data = <<>> /\ NoStats
    /\ graph_data \in GraphData
    /\ graph_top \in GraphTops

Display ==
    /\ pc = "call"
    /\ \E g \in Graph(graph_data, "Graph", graph_top) :
          IF g.err = "none"
          THEN report' = Append(report, g) /\ pc' = "returned" /\ err' = err
          ELSE report' = report /\ pc' = "raised" /\ err' = g.err
    /\ UNCHANGED <<fh, pos, data, done, hits_per_page, bytes_per_ip, hits_per_response,
                   hits_per_os, hits_per_time, totals, graph_data, graph_top>>

NextGraph == Display

SpecGraph == InitGraph /\ [][NextGraph]_vars

\* ------------------------------------------------- parse_log_file: claims

\* The lines of the files, and parse_line(line.strip()) of each, tabulated.
InputLines == UNION {{f[k] : k \in 1..Len(f)} : f \in Files}

ParsedLine == [l \in InputLines |-> parse_line(Strip(l))]

\* The lines read so far that parse, and the j-th of them.
Kept == {k \in 1..pos : ParsedLine[fh[k]] # False}

NthKept(j) == CHOOSE k \in Kept : Cardinality({m \in Kept : m < k}) = j - 1

\* C1: at every point of the scan, data holds exactly the entries of the lines
\* read so far that match the pattern, in the order of those lines (as many
\* entries as parsable lines, nothing in the place of an unparsable line), no
\* line makes the scan raise, and the scan ends only when every line was read.
C1_EntriesOfParsableLinesInOrder ==
    /\ pc # "raised"
    /\ Len(data) = Cardinality(Kept)
    /\ \A j \in 1..Len(data) : data[j] = ParsedLine[fh[NthKept(j)]][1]
    /\ pc = "written" => pos = Len(fh)

\* A file of three lines is written, an unparsable line between two parsable
\* lines with different entries.
C1_Witness ==
    /\ pc = "written" /\ Len(fh) = 3
    /\ Kept = {1, 3}
    /\ Len(data) = 2 /\ data[1] # data[2]

\* The text s has no character c.
NoChar(s, c) == \A i \in 1..Len(s) : Ch(s, i) # c

\* The text s is a dotted quad of digit runs.
IsDottedQuad(s) ==
    \E a, b, c \in 2..(Len(s) - 1) :
        /\ a < b /\ b < c
        /\ Ch(s, a) = "." /\ Ch(s, b) = "." /\ Ch(s, c) = "."
        /\ AllDigits(Sub(s, 1, a - 1)) /\ AllDigits(Sub(s, a + 1, b - 1))
        /\ AllDigits(Sub(s, b + 1, c - 1)) /\ AllDigits(Sub(s, c + 1, Len(s)))

\* The text mid is a status token of digits, one space, and a bytes token of
\* digits or "-".
IsStatusAndBytes(mid) ==
    \E j \in 2..(Len(mid) - 1) :
        /\ Ch(mid, j) = " "
        /\ AllDigits(Sub(mid, 1, j - 1))
        /\ AllDigits(Sub(mid, j + 1, Len(mid))) \/ Sub(mid, j + 1, Len(mid)) = "-"

\* The whole of line is the nine fields of the entry e in the fixed format,
\* with a status and a bytes token between the request and the referrer.
WholeLineOf(line, e) ==
    LET head == e.remote_ip \o " " \o e.log_name \o " " \o e.user \o " [" \o e.time \o "] \""
                \o e.request \o "\" "
        tail == " \"" \o e.referrer \o "\" \"" \o e.user_agent \o "\""
    IN  /\ Len(line) > Len(head) + Len(tail)
        /\ Sub(line, 1, Len(head)) = head
        /\ Sub(line, Len(line) - Len(tail) + 1, Len(line)) = tail
        /\ IsStatusAndBytes(Sub(line, Len(head) + 1, Len(line) - Len(tail)))
        /\ IsDottedQuad(e.remote_ip) /\ e.log_name = "-" /\ e.user = "-"
        /\ Len(e.time) > 0 /\ NoChar(e.time, "]")
        /\ Len(e.request) > 0 /\ NoChar(e.request, "\"")
        /\ Len(e.referrer) > 0 /\ NoChar(e.referrer, "\"")
        /\ Len(e.user_agent) > 0 /\ NoChar(e.user_agent, "\"")

\* C10: every entry of data is the entry of a line read that has the fixed
\* format from its first to its last character, its response and bytes are
\* integers >= 0, its system_agent is a string that is not empty, and int() never
\* raises in parse_int.
C10_EntriesAreWellFormed ==
    /\ pc # "raised"
    /\ \A j \in 1..Len(data) :
          /\ \E k \in 1..pos : WholeLineOf(Strip(fh[k]), data[j])
          /\ data[j].response \in Nat /\ data[j].bytes \in Nat
          /\ Len(data[j].system_agent) > 0

\* A file of three lines is written: one line is dropped, one entry has the
\* label Unknown, one has bytes 0 (from "-") and a captured label.
C10_Witness ==
    /\ pc = "written" /\ Len(fh) = 3 /\ Len(data) = 2
    /\ data[1].system_agent = "Unknown" /\ data[1].bytes > 0
    /\ data[2].system_agent # "Unknown" /\ data[2].bytes = 0

\* The integer a status or bytes token of the model stands for.
TokenValue ==
    [t \in {"200", "404", "007", "0", "512", "1048576", "-"} |->
        CASE t = "200" -> 200 [] t = "404" -> 404 [] t = "007" -> 7 [] t = "0" -> 0
          [] t = "512" -> 512 [] t = "1048576" -> 1048576 [] t = "-" -> 0]

\* The one-line file of the base line with the status st and the bytes by.
StatusBytesFile(st, by) == <<LineOf([BaseFields EXCEPT !.status = st, !.bytes = by]) \o "\n">>

\* C3, as claimed: a line whose other eight fields match is accepted whether
\* its status and its bytes are digits or "-", with "-" decoded to 0 and digits
\* to their integer in both fields.
C3_UniformDecoding ==
    \A st \in DOMAIN TokenValue, by \in DOMAIN TokenValue :
        (pc = "written" /\ fh = StatusBytesFile(st, by)) =>
            /\ Len(data) = 1
            /\ data[1].response = TokenValue[st]
            /\ data[1].bytes = TokenValue[by]

\* C3, amended: a status "-" makes the line unparsable (no entry), whatever
\* the bytes; with a status of digits the line is accepted, response is the
\* integer of the status, and bytes is 0 for "-" and the integer of the digits
\* otherwise.
C3_StatusDigitsOnly ==
    \A st \in DOMAIN TokenValue, by \in DOMAIN TokenValue :
        (pc = "written" /\ fh = StatusBytesFile(st, by)) =>
            IF st = "-" THEN data = <<>>
            ELSE /\ Len(data) = 1
                 /\ data[1].response = TokenValue[st]
                 /\ data[1].bytes = TokenValue[by]

\* The line with status "-" and bytes "-" has been scanned and has no entry.
C3_Witness == pc = "written" /\ fh = StatusBytesFile("-", "-") /\ data = <<>>

\* The request r is an upper-case method, a space, a url without a space, a
\* space, and a rest without a line break; i and j are the two spaces.
HasShape(r, i, j) ==
    /\ 1 < i /\ i + 1 < j /\ j <= Len(r)
    /\ Ch(r, i) = " " /\ Ch(r, j) = " "
    /\ \A k \in 1..(i - 1) : Ch(r, k) \in Upper
    /\ NoChar(Sub(r, i + 1, j - 1), " ")
    /\ NoChar(Sub(r, j + 1, Len(r)), "\n")

\* C9: every entry has its method, url and protocol all present, when its
\* request has the shape METHOD URL REST (and they are its three parts), or all
\* absent, when it has not; and the base line with any request of the model
\* that is not empty has its entry in data.
C9_RequestAllOrNothing ==
    /\ \A n \in 1..Len(data) :
          LET e == data[n]
              shaped == \E i, j \in 1..Len(e.request) : HasShape(e.request, i, j)
          IN  IF shaped
              THEN /\ e.method # None /\ e.url # None /\ e.protocol # None
                   /\ e.request = e.method[1] \o " " \o e.url[1] \o " " \o e.protocol[1]
                   /\ HasShape(e.request, Len(e.method[1]) + 1,
                               Len(e.method[1]) + Len(e.url[1]) + 2)
              ELSE e.method = None /\ e.url = None /\ e.protocol = None
    /\ \A r \in Requests \ {""} :
          (pc = "written" /\ fh = <<LineOf([BaseFields EXCEPT !.request = r]) \o "\n">>) =>
              Len(data) = 1 /\ data[1].request = r

\* A line whose request has a lower-case method is scanned: its entry is kept,
\* with no method, url or protocol.
C9_Witness ==
    /\ pc = "written" /\ Len(data) = 1
    /\ data[1].request = "get /a HTTP/1.1"
    /\ data[1].method = None /\ data[1].url = None /\ data[1].protocol = None

MobileWords == {"iPhone OS ", "Android ", "iPad"}

DesktopWords == {"Windows NT ", "Mac OS ", "Linux "}

\* A mobile token occurs in ua: iPad, or iPhone OS or Android and a digit.
MobileOccurs(ua) ==
    \E p \in 1..Len(ua) :
        \/ LitCI(ua, p, "iPad")
        \/ LitCI(ua, p, "iPhone OS ") /\ Ch(ua, p + 10) \in Digit
        \/ LitCI(ua, p, "Android ") /\ Ch(ua, p + 8) \in Digit

\* A desktop token occurs in ua: Windows NT or Linux and a digit, or Mac OS and
\* a character of its version text.
DesktopOccurs(ua) ==
    \E p \in 1..Len(ua) :
        \/ LitCI(ua, p, "Windows NT ") /\ Ch(ua, p + 11) \in Digit
        \/ LitCI(ua, p, "Linux ") /\ Ch(ua, p + 6) \in Digit
        \/ LitCI(ua, p, "Mac OS ") /\ Ch(ua, p + 7) \in MacClass

\* The label is a piece of ua that starts with one of the words.
IsCaptureOf(label, ua, words) ==
    /\ \E w \in words : LitCI(label, 1, w)
    /\ \E p \in 1..Len(ua) : Sub(ua, p, p + Len(label) - 1) = label

\* C4: the label of every entry is the mobile capture when a mobile token
\* occurs in its user agent, whether or not a desktop token occurs too; the
\* desktop capture when only a desktop token occurs; and "Unknown" exactly when
\* neither occurs.
C4_MobileBeforeDesktop ==
    \A n \in 1..Len(data) :
        LET ua    == data[n].user_agent
            label == data[n].system_agent
        IN  /\ MobileOccurs(ua) =>
                  label = MOBILE_UA_RE(ua)[1] /\ IsCaptureOf(label, ua, MobileWords)
            /\ (~MobileOccurs(ua) /\ DesktopOccurs(ua)) =>
                  label = DESKTOP_UA_RE(ua)[1] /\ IsCaptureOf(label, ua, DesktopWords)
            /\ label = "Unknown" <=> (~MobileOccurs(ua) /\ ~DesktopOccurs(ua))

\* An entry whose user agent has a desktop token before a mobile token, the
\* desktop capture running over the mobile one, has the mobile label.
C4_Witness ==
    \E n \in 1..Len(data) :
        /\ data[n].user_agent = "Mac OS XiPhone OS 15_0"
        /\ data[n].system_agent = "iPhone OS 15_0"

\* ------------------------------------------------------ get_stats: claims

\* n written with two digits.
TwoDigit(n) == Ch(DigitChars, (n \div 10) + 1) \o Ch(DigitChars, (n % 10) + 1)

\* How many of the entries the loop has completed have the hour h.
HitsAt(h) == Cardinality({k \in 1..done : strptime_hour(data[k].time) = h})

\* C7: every key of hits_per_time is HH:00-HH2:00 for an hour HH of 0..23
\* written with two digits and HH2 = HH + 1 written with two digits, never
\* wrapped to 00; its count is the number of entries aggregated so far whose
\* hour is HH; every such hour has one key, and hour 23 has the key 23:00-24:00.
C7_HourKeys ==
    /\ \A j \in 1..Len(hits_per_time) :
          /\ \E h \in 0..23 :
                /\ hits_per_time[j].k = TwoDigit(h) \o ":00-" \o TwoDigit(h + 1) \o ":00"
                /\ hits_per_time[j].v = HitsAt(h)
          /\ hits_per_time[j].v > 0
          /\ Sub(hits_per_time[j].k, 7, 11) # "00:00"
          /\ \A i \in 1..Len(hits_per_time) : i # j => hits_per_time[i].k # hits_per_time[j].k
    /\ \A h \in 0..23 :
          HitsAt(h) > 0 => HasKey(hits_per_time, TwoDigit(h) \o ":00-" \o TwoDigit(h + 1) \o ":00")
    /\ HitsAt(23) > 0 => Get(hits_per_time, "23:00-24:00") = HitsAt(23)

\* The run is done with two entries counted at hour 23 and one at hour 7.
C7_Witness ==
    /\ pc = "done"
    /\ HasKey(hits_per_time, "23:00-24:00") /\ Get(hits_per_time, "23:00-24:00") = 2
    /\ HasKey(hits_per_time, "07:00-08:00")

\* The hour a key of hits_per_time starts at.
StartHour(key) == DecimalValue(Sub(key, 1, 2))

\* C8: from the sort on, hits_per_time is in ascending order of the starting
\* hour of its keys, it has one key for each hour of the entries and the count
\* of that hour, and the bars of the last graph are displayed in that order.
C8_SortedByStartHour ==
    pc \in {"time", "totals", "done"} =>
        /\ \A a, b \in 1..Len(hits_per_time) :
              a < b => StartHour(hits_per_time[a].k) < StartHour(hits_per_time[b].k)
        /\ {StartHour(hits_per_time[j].k) : j \in 1..Len(hits_per_time)}
              = {h \in 0..23 : HitsAt(h) > 0}
        /\ \A j \in 1..Len(hits_per_time) :
              hits_per_time[j].v = HitsAt(StartHour(hits_per_time[j].k))
        /\ pc \in {"totals", "done"} =>
              /\ report[Len(report)].title = "Hits per time range"
              /\ [j \in 1..Len(report[Len(report)].rows) |-> report[Len(report)].rows[j].k]
                    = [j \in 1..Len(hits_per_time) |-> hits_per_time[j].k]

\* The sorted mapping is about to be displayed, and the entries came with a
\* later hour before an earlier one.
C8_Witness ==
    /\ pc = "time" /\ Len(data) >= 2 /\ Len(hits_per_time) >= 2
    /\ strptime_hour(data[1].time) > strptime_hour(data[2].time)
    /\ hits_per_time[1].k = HourKey(strptime_hour(data[2].time))

\* The time of the k-th entry does not have the format.
BadTime(k) == strptime_hour(data[k].time) = ValueError

\* How many entries have the same value as the k-th in a field.
SameUrl(k) == Cardinality({m \in 1..Len(data) : data[m].url = data[k].url})

SameIpBytes(k) ==
    SumValues([m \in 1..Len(data) |->
                 [k |-> m, v |-> IF data[m].remote_ip = data[k].remote_ip THEN data[m].bytes ELSE 0]])

SameResponse(k) == Cardinality({m \in 1..Len(data) : data[m].response = data[k].response})

SameOs(k) == Cardinality({m \in 1..Len(data) : data[m].system_agent = data[k].system_agent})

\* C2, as claimed: a run over entries of which one has a time that does not
\* parse ends at the totals, with every entry counted in hits per URL, bytes per
\* IP, hits per response and hits per OS, and the entries whose time parses
\* counted in hits per hour.
C2_TimeFailureIsLocal ==
    (pc \in {"done", "raised"} /\ \E k \in 1..Len(data) : BadTime(k)) =>
        /\ pc = "done"
        /\ \A k \in 1..Len(data) :
              /\ HasKey(hits_per_page, data[k].url)
              /\ Get(hits_per_page, data[k].url) = SameUrl(k)
              /\ HasKey(bytes_per_ip, data[k].remote_ip)
              /\ Get(bytes_per_ip, data[k].remote_ip) = SameIpBytes(k)
              /\ HasKey(hits_per_response, data[k].response)
              /\ Get(hits_per_response, data[k].response) = SameResponse(k)
              /\ HasKey(hits_per_os, data[k].system_agent)
              /\ Get(hits_per_os, data[k].system_agent) = SameOs(k)
              /\ ~BadTime(k) => HasKey(hits_per_time, HourKey(strptime_hour(data[k].time)))
        /\ SumValues(hits_per_time) = Cardinality({k \in 1..Len(data) : ~BadTime(k)})

\* C5, as claimed, for the entries whose times all parse (the empty sequence
\* among them): the run does not raise, and at its end the totals are the number
\* of entries, of distinct remote_ip values and of distinct url values.
C5_RunReachesTotals ==
    (\A k \in 1..Len(data) : ~BadTime(k)) =>
        /\ pc # "raised"
        /\ pc = "done" =>
              /\ totals.hits = Len(data)
              /\ totals.visitors = Cardinality({data[k].remote_ip : k \in 1..Len(data)})
              /\ totals.urls = Cardinality({data[k].url : k \in 1..Len(data)})

\* ------------------------------------------------- Graph.display: claims

\* C6, as claimed: Graph.display with a top of at least 1 on a mapping that is
\* not empty returns, having displayed the first top items, each with the
\* percentage value * 100 / (the sum of the displayed values), the percentages
\* adding up to 100, and a bar of value * 100 / (the largest displayed value).
C6_TopNPercentages ==
    (pc # "call" /\ graph_top # NoTop /\ graph_top >= 1 /\ graph_data # <<>>) =>
        /\ pc = "returned"
        /\ LET shown == Take(graph_data, graph_top)
               rows  == report[1].rows
           IN  /\ Len(rows) = Len(shown)
               /\ \A j \in 1..Len(rows) :
                     /\ rows[j].k = shown[j].k /\ rows[j].v = shown[j].v
                     /\ rows[j].pnum = shown[j].v * 100
                     /\ rows[j].pden = SumValues(shown)
                     /\ rows[j].bar = (shown[j].v * 100) \div MaxValue(shown)
               /\ SumValues([j \in 1..Len(rows) |-> [k |-> j, v |-> rows[j].pnum]])
                     = 100 * SumValues(shown)

====
